---- MODULE Spec2Model ----
(***************************************************************************)
(* Model of demo/demo.cpp: the place-recognition demo built on DBoW2.      *)
(* One run of the program is main(): loadFeatures on the memory and the    *)
(* target directory, testVocCreation, testDatabase.  The files             *)
(* small_voc.yml.gz and small_db.yml.gz survive from one run to the next.  *)
(*                                                                         *)
(* Strings are sequences of one-character strings.  Entry ids are the      *)
(* 0-based ids of DBoW2; TLA+ sequences are 1-based, so entry id e sits at *)
(* position e + 1 of a sequence.                                           *)
(***************************************************************************)
EXTENDS Integers, Sequences, FiniteSets, TLC

VARIABLES
    pc,                 \* position of the run in main / testDatabase
    argv,               \* [memory_dir, target_dir, top_n] of the run
    mem_entries,        \* what directory_iterator yields for memory_dir
    tgt_entries,        \* what directory_iterator yields for target_dir
    memory,             \* main: vector<vector<cv::Mat>> memory
    memory_img_names,   \* main: vector<string> memory_img_names
    targets,            \* main: vector<vector<cv::Mat>> targets
    target_img_names,   \* main: vector<string> target_img_names
    voc_file,           \* small_voc.yml.gz
    db_file,            \* small_db.yml.gz
    voc,                \* testDatabase: OrbVocabulary voc
    db,                 \* testDatabase: OrbDatabase db
    i,                  \* loop index of the loop the run is in
    data,               \* testDatabase: YAML::Node data
    output,             \* output.yaml as written by this run
    hist,               \* history of the run: the library calls it has made
    first_run           \* report and inputs of the first of two runs

vars == <<pc, argv, mem_entries, tgt_entries, memory, memory_img_names,
          targets, target_img_names, voc_file, db_file, voc, db, i, data,
          output, hist, first_run>>

-----------------------------------------------------------------------------
(* Bounds of the model *)

MaxTopN == 2        \* TOP_N ranges over -1 .. MaxTopN

(* Program constants *)
k == 9
L == 3

-----------------------------------------------------------------------------
(* Values *)

\* A file is <<>> when it does not exist and <<content>> when it does
NoFile == <<>>
File(content) == <<content>>
Content(file) == file[1]
Range(s) == {s[x] : x \in DOMAIN s}
Min(a, b) == IF a < b THEN a ELSE b

\* File names found in a directory, and the directories given on the command line
FileNames == {<<"a">>, <<"b">>}
DirArgs == {[memory_dir |-> <<"m">>, target_dir |-> <<"t", "/">>],
            [memory_dir |-> <<"d", "/", "m">>, target_dir |-> <<"d", "/", "t">>]}
TopNs == (-1) .. MaxTopN

\* The descriptor matrix ORB computes for a directory entry: one row per
\* keypoint.  Nothing that is not a decodable image has rows.
Mats == {<<>>, <<1>>, <<1, 2>>}
DirEntries == [name : FileNames, kind : {"file"}, mat : Mats]
                \cup [name : FileNames, kind : {"dir"}, mat : {<<>>}]

\* The listings of a directory: its entries in iteration order, names distinct
SeqsUpTo(S, n) == UNION {[1..m -> S] : m \in 0..n}
Listings == {l \in SeqsUpTo(DirEntries, Cardinality(FileNames)) :
                \A x, y \in DOMAIN l : x # y => l[x].name # l[y].name}

-----------------------------------------------------------------------------
(* Feature ingestion: loadFeatures, changeStructure *)

\* entry.path() of a directory_iterator over img_path: the directory, one
\* separator unless the directory already ends with one, the file name
EntryPath(img_path, name) ==
    IF img_path = <<>> \/ img_path[Len(img_path)] = "/"
    THEN img_path \o name
    ELSE img_path \o <<"/">> \o name

\* cv::imread followed by orb->detectAndCompute: the descriptor matrix of the
\* entry, with no rows when the entry does not decode or has no keypoints
DetectAndCompute(entry) == entry.mat

\* changeStructure: out is resized to plain.rows and out[i] = plain.row(i)
changeStructure(plain) == [r \in 1..Len(plain) |-> plain[r]]

\* loadFeatures: the loop over the directory entries, from entry x on
RECURSIVE LoadLoop(_, _, _, _, _)
LoadLoop(listing, img_path, x, features, img_names) ==
    IF x > Len(listing) THEN [features |-> features, img_names |-> img_names]
    ELSE LET img_name == EntryPath(img_path, listing[x].name)
             descriptors == DetectAndCompute(listing[x])
         IN  LoadLoop(listing, img_path, x + 1,
                      Append(features, changeStructure(descriptors)),
                      Append(img_names, img_name))

\* loadFeatures: features and img_names are cleared, then filled
loadFeatures(listing, img_path) == LoadLoop(listing, img_path, 1, <<>>, <<>>)

-----------------------------------------------------------------------------
(* Report writing: get_file_name and the YAML node *)

\* path.find("/"): the first position of the delimiter, 0 for npos
Find(path) ==
    IF \E x \in DOMAIN path : path[x] = "/"
    THEN CHOOSE x \in DOMAIN path :
            path[x] = "/" /\ \A y \in 1..(x - 1) : path[y] # "/"
    ELSE 0

\* get_file_name returning the first token it has cut off instead of the rest
get_first_token(path) ==
    LET pos == Find(path)
    IN  IF pos = 0 THEN path ELSE SubSeq(path, 1, pos - 1)

\* get_file_name: erase up to and including each delimiter, return the rest
RECURSIVE get_file_name(_)
get_file_name(path) ==
    LET pos == Find(path)
    IN  IF pos = 0 THEN path
        ELSE get_file_name(SubSeq(path, pos + 1, Len(path)))

\* YAML::Node data as a map in insertion order; data[key] = value replaces
\* the value of a key the map has and appends the key otherwise
YamlSet(node, key, value) ==
    IF \E x \in DOMAIN node : node[x].key = key
    THEN [x \in DOMAIN node |->
            IF node[x].key = key THEN [key |-> key, value |-> value] ELSE node[x]]
    ELSE Append(node, [key |-> key, value |-> value])

-----------------------------------------------------------------------------
(* The DBoW2 library: vocabulary and database *)

\* OrbVocabulary voc: the default-constructed vocabulary, which has no words
DefaultVoc ==
    [k |-> 10, L |-> 5, weighting |-> "TF_IDF", scoring |-> "L1_NORM", words |-> {}]

\* voc.create(training_features) on a vocabulary built with k, L, TF_IDF,
\* L1_NORM: the words are the descriptors of the training corpus
VocCreate(training_features) ==
    [k |-> k, L |-> L, weighting |-> "TF_IDF", scoring |-> "L1_NORM",
     words |-> UNION {Range(training_features[x]) : x \in DOMAIN training_features}]

\* voc.save / voc.load
VocSave(v) == File(v)
VocLoad(file) == Content(file)

\* voc.transform: the histogram of a descriptor set under a vocabulary
Transform(v, features) == Range(features) \cap v.words

\* voc.score of two histograms
Score(v1, v2) == Cardinality(v1 \cap v2)

\* OrbDatabase(voc, false, 0): an empty database holding a copy of voc
NewDatabase(v) == [voc |-> v, use_di |-> FALSE, di_levels |-> 0, entries |-> <<>>]

\* db.add: the entry gets the next id, which is its 0-based position
DbAdd(d, features) ==
    [d EXCEPT !.entries = Append(@, Transform(d.voc, features))]

\* db.save / db.load: the file holds the vocabulary and every entry
DbSave(d) == File(d)
DbLoad(file) == Content(file)

\* db.query: every entry scored against the query, by descending score and
\* then ascending id, cut to max_results; nothing for max_results <= 0
Query(d, features, max_results) ==
    LET n == Len(d.entries)
        q == Transform(d.voc, features)
        sc(e) == Score(q, d.entries[e + 1])
        Before(a, b) == sc(a) > sc(b) \/ (sc(a) = sc(b) /\ a < b)
        rank(e) == 1 + Cardinality({b \in 0..(n - 1) : Before(b, e)})
        sorted == [p \in 1..n |->
                      LET e == CHOOSE e \in 0..(n - 1) : rank(e) = p
                      IN  [Id |-> e, Score |-> sc(e)]]
    IN  IF max_results <= 0 THEN <<>>
        ELSE SubSeq(sorted, 1, Min(max_results, n))

-----------------------------------------------------------------------------
(* The run *)

NoRun == <<>>
NoArgs == [memory_dir |-> <<>>, target_dir |-> <<>>, top_n |-> 0]
NoHist == [creates |-> 0, adds |-> 0, db_loads |-> 0, db_saves |-> 0]

\* What a string read past the end of memory_img_names can hold
Garbage == {<<>>, <<"?">>}

\* No process is running: nothing is held in memory
NoProcess ==
    /\ pc = "idle"
    /\ argv = NoArgs
    /\ mem_entries = <<>> /\ tgt_entries = <<>>
    /\ memory = <<>> /\ memory_img_names = <<>>
    /\ targets = <<>> /\ target_img_names = <<>>
    /\ voc = DefaultVoc
    /\ db = NewDatabase(DefaultVoc)
    /\ i = 0
    /\ data = <<>>
    /\ output = NoFile
    /\ hist = NoHist

Init ==
    /\ NoProcess
    /\ voc_file = NoFile
    /\ db_file = NoFile
    /\ first_run = NoRun

\* main, lines 51-62: the program is started with three arguments
Main(dirs, top_n) ==
    /\ pc = "idle"
    /\ argv' = [memory_dir |-> dirs.memory_dir, target_dir |-> dirs.target_dir,
                top_n |-> top_n]
    /\ hist' = NoHist
    /\ pc' = "loadMemory"
    /\ UNCHANGED <<mem_entries, tgt_entries, memory, memory_img_names, targets,
                   target_img_names, voc_file, db_file, voc, db, i, data,
                   output, first_run>>

\* main, lines 64-66: loadFeatures(memory, memory_dir, memory_img_names) when
\* the directory holds listing
LoadMemory(listing) ==
    /\ pc = "loadMemory"
    /\ mem_entries' = listing
    /\ LET r == loadFeatures(listing, argv.memory_dir)
       IN  memory' = r.features /\ memory_img_names' = r.img_names
    /\ pc' = "loadTargets"
    /\ UNCHANGED <<argv, tgt_entries, targets, target_img_names, voc_file,
                   db_file, voc, db, i, data, output, hist, first_run>>

\* main, lines 67-69: loadFeatures(targets, target_dir, target_img_names)
LoadTargets(listing) ==
    /\ pc = "loadTargets"
    /\ tgt_entries' = listing
    /\ LET r == loadFeatures(listing, argv.target_dir)
       IN  targets' = r.features /\ target_img_names' = r.img_names
    /\ pc' = "testVocCreation"
    /\ UNCHANGED <<argv, mem_entries, memory, memory_img_names, voc_file,
                   db_file, voc, db, i, data, output, hist, first_run>>

\* testVocCreation creating the vocabulary from the images of both directories
testVocCreationFromAll ==
    /\ pc = "testVocCreation"
    /\ voc_file' = VocSave(VocCreate(memory \o targets))
    /\ hist' = [hist EXCEPT !.creates = @ + 1]
    /\ pc' = "testDatabase"
    /\ UNCHANGED <<argv, mem_entries, tgt_entries, memory, memory_img_names,
                   targets, target_img_names, db_file, voc, db, i, data,
                   output, first_run>>

\* testVocCreation(memory): create the vocabulary and save it
testVocCreation ==
    /\ pc = "testVocCreation"
    /\ voc_file' = VocSave(VocCreate(memory))
    /\ hist' = [hist EXCEPT !.creates = @ + 1]
    /\ pc' = "testDatabase"
    /\ UNCHANGED <<argv, mem_entries, tgt_entries, memory, memory_img_names,
                   targets, target_img_names, db_file, voc, db, i, data,
                   output, first_run>>

\* testDatabase without the check of line 186: the database is created from
\* the vocabulary file even though a database file exists
RebuildDatabase ==
    /\ pc = "testDatabase"
    /\ db_file # NoFile
    /\ voc' = VocLoad(voc_file)
    /\ db' = NewDatabase(voc')
    /\ i' = 0
    /\ pc' = "add"
    /\ UNCHANGED <<argv, mem_entries, tgt_entries, memory, memory_img_names,
                   targets, target_img_names, voc_file, db_file, data, output,
                   hist, first_run>>

\* testDatabase, lines 186-190: the database file exists and is loaded
LoadDatabase ==
    /\ pc = "testDatabase"
    /\ db_file # NoFile
    /\ db' = DbLoad(db_file)
    /\ hist' = [hist EXCEPT !.db_loads = @ + 1]
    /\ i' = 0
    /\ pc' = "query"
    /\ UNCHANGED <<argv, mem_entries, tgt_entries, memory, memory_img_names,
                   targets, target_img_names, voc_file, db_file, voc, data,
                   output, first_run>>

\* testDatabase, lines 191-195: no database file; the vocabulary file is
\* loaded and an empty database is made from it
CreateDatabase ==
    /\ pc = "testDatabase"
    /\ db_file = NoFile
    /\ voc' = VocLoad(voc_file)
    /\ db' = NewDatabase(voc')
    /\ i' = 0
    /\ pc' = "add"
    /\ UNCHANGED <<argv, mem_entries, tgt_entries, memory, memory_img_names,
                   targets, target_img_names, voc_file, db_file, data, output,
                   hist, first_run>>

\* The loop of lines 198-201 running from the last image to the first
AddImageBackwards ==
    /\ pc = "add"
    /\ i < Len(memory)
    /\ db' = DbAdd(db, memory[Len(memory) - i])
    /\ hist' = [hist EXCEPT !.adds = @ + 1]
    /\ i' = i + 1
    /\ UNCHANGED <<pc, argv, mem_entries, tgt_entries, memory, memory_img_names,
                   targets, target_img_names, voc_file, db_file, voc, data,
                   output, first_run>>

\* testDatabase, lines 198-201: one iteration of the loop adding the images
AddImage ==
    /\ pc = "add"
    /\ i < Len(memory)
    /\ db' = DbAdd(db, memory[i + 1])
    /\ hist' = [hist EXCEPT !.adds = @ + 1]
    /\ i' = i + 1
    /\ UNCHANGED <<pc, argv, mem_entries, tgt_entries, memory, memory_img_names,
                   targets, target_img_names, voc_file, db_file, voc, data,
                   output, first_run>>

\* The save of lines 203-206 writing the database as it was before the loop
SaveEmptyDatabase ==
    /\ pc = "add"
    /\ ~(i < Len(memory))
    /\ db_file' = DbSave(NewDatabase(voc))
    /\ hist' = [hist EXCEPT !.db_saves = @ + 1]
    /\ i' = 0
    /\ pc' = "query"
    /\ UNCHANGED <<argv, mem_entries, tgt_entries, memory, memory_img_names,
                   targets, target_img_names, voc_file, voc, db, data, output,
                   first_run>>

\* testDatabase, lines 203-206: the loop is over and the database is saved
SaveDatabase ==
    /\ pc = "add"
    /\ ~(i < Len(memory))
    /\ db_file' = DbSave(db)
    /\ hist' = [hist EXCEPT !.db_saves = @ + 1]
    /\ i' = 0
    /\ pc' = "query"
    /\ UNCHANGED <<argv, mem_entries, tgt_entries, memory, memory_img_names,
                   targets, target_img_names, voc_file, voc, db, data, output,
                   first_run>>

\* The proposals of a query result; names[x] is the string the run reads for
\* the x-th result
Proposals(ret, names) ==
    [x \in DOMAIN ret |->
        [file_name |-> get_file_name(names[x]), score |-> ret[x].Score]]

\* The positions of ret whose id is no position of memory_img_names
OutOfRange(ret) == {x \in DOMAIN ret : ~(ret[x].Id < Len(memory_img_names))}

\* The loop of lines 213-236 without the continue of lines 217-219
QueryTargetWithoutSkip ==
    /\ pc = "query"
    /\ i < Len(targets)
    /\ LET ret == Query(db, targets[i + 1], argv.top_n)
       IN  \E g \in [OutOfRange(ret) -> Garbage] :
              LET names == [x \in DOMAIN ret |->
                              IF x \in OutOfRange(ret) THEN g[x]
                              ELSE memory_img_names[ret[x].Id + 1]]
              IN  data' = YamlSet(data, get_file_name(target_img_names[i + 1]),
                                  Proposals(ret, names))
    /\ i' = i + 1
    /\ UNCHANGED <<pc, argv, mem_entries, tgt_entries, memory, memory_img_names,
                   targets, target_img_names, voc_file, db_file, voc, db,
                   output, hist, first_run>>

\* testDatabase, lines 213-236: one iteration of the loop over the targets.
\* memory_img_names[r.Id] with r.Id past the end is undefined behaviour: the
\* string read is any of Garbage (QueryCrash is the other outcome).
QueryTarget ==
    /\ pc = "query"
    /\ i < Len(targets)
    /\ LET ret == Query(db, targets[i + 1], argv.top_n)
       IN  IF Len(ret) = 0
           THEN data' = data
           ELSE \E g \in [OutOfRange(ret) -> Garbage] :
                  LET names == [x \in DOMAIN ret |->
                                  IF x \in OutOfRange(ret) THEN g[x]
                                  ELSE memory_img_names[ret[x].Id + 1]]
                  IN  data' = YamlSet(data, get_file_name(target_img_names[i + 1]),
                                      Proposals(ret, names))
    /\ i' = i + 1
    /\ UNCHANGED <<pc, argv, mem_entries, tgt_entries, memory, memory_img_names,
                   targets, target_img_names, voc_file, db_file, voc, db,
                   output, hist, first_run>>

\* testDatabase, line 229: the read past the end of memory_img_names ends
\* the process
QueryCrash ==
    /\ pc = "query"
    /\ i < Len(targets)
    /\ OutOfRange(Query(db, targets[i + 1], argv.top_n)) # {}
    /\ pc' = "crashed"
    /\ UNCHANGED <<argv, mem_entries, tgt_entries, memory, memory_img_names,
                   targets, target_img_names, voc_file, db_file, voc, db, i,
                   data, output, hist, first_run>>

\* testDatabase, lines 240-249: the loop is over and output.yaml is written
WriteReport ==
    /\ pc = "query"
    /\ ~(i < Len(targets))
    /\ output' = File(data)
    /\ pc' = "done"
    /\ UNCHANGED <<argv, mem_entries, tgt_entries, memory, memory_img_names,
                   targets, target_img_names, voc_file, db_file, voc, db, i,
                   data, hist, first_run>>

\* The process ends; what it held in memory is gone, the files stay
Exit ==
    /\ pc \in {"done", "crashed"}
    /\ pc' = "idle"
    /\ argv' = NoArgs
    /\ mem_entries' = <<>> /\ tgt_entries' = <<>>
    /\ memory' = <<>> /\ memory_img_names' = <<>>
    /\ targets' = <<>> /\ target_img_names' = <<>>
    /\ voc' = DefaultVoc
    /\ db' = NewDatabase(DefaultVoc)
    /\ i' = 0
    /\ data' = <<>>
    /\ output' = NoFile
    /\ hist' = NoHist
    /\ UNCHANGED <<voc_file, db_file, first_run>>

\* Between two runs somebody removes a persisted file
RemoveVocabularyFile ==
    /\ pc = "idle"
    /\ voc_file # NoFile
    /\ voc_file' = NoFile
    /\ UNCHANGED <<pc, argv, mem_entries, tgt_entries, memory, memory_img_names,
                   targets, target_img_names, db_file, voc, db, i, data,
                   output, hist, first_run>>

RemoveDatabaseFile ==
    /\ pc = "idle"
    /\ db_file # NoFile
    /\ db_file' = NoFile
    /\ UNCHANGED <<pc, argv, mem_entries, tgt_entries, memory, memory_img_names,
                   targets, target_img_names, voc_file, voc, db, i, data,
                   output, hist, first_run>>

Next ==
    \/ \E dirs \in DirArgs, top_n \in TopNs : Main(dirs, top_n)
    \/ \E listing \in Listings : LoadMemory(listing)
    \/ \E listing \in Listings : LoadTargets(listing)
    \/ testVocCreation
    \/ LoadDatabase
    \/ CreateDatabase
    \/ AddImage
    \/ SaveDatabase
    \/ QueryTarget
    \/ QueryCrash
    \/ WriteReport
    \/ Exit
    \/ RemoveVocabularyFile
    \/ RemoveDatabaseFile

Spec == Init /\ [][Next]_vars

-----------------------------------------------------------------------------
(* The same command twice: the first run finds no database file, the second *)
(* finds the one the first has written; the directories do not change.      *)
(* QueryCrash is no step of these runs: the database a run loads was built  *)
(* from the directory the run reads (NoReadPastEndTwice).                   *)

\* The vocabulary files a run can leave behind
VocFiles == {VocSave(VocCreate(loadFeatures(l, <<>>).features)) : l \in Listings}

InitTwice ==
    /\ NoProcess
    /\ voc_file \in {NoFile} \cup VocFiles
    /\ db_file = NoFile
    /\ first_run = NoRun

\* The first run is over: its command line, directories and report are noted
RecordFirstRun ==
    /\ pc = "done"
    /\ first_run = NoRun
    /\ first_run' = File([argv |-> argv, mem_entries |-> mem_entries,
                          tgt_entries |-> tgt_entries, output |-> output])
    /\ UNCHANGED <<pc, argv, mem_entries, tgt_entries, memory, memory_img_names,
                   targets, target_img_names, voc_file, db_file, voc, db, i,
                   data, output, hist>>

FirstMain ==
    /\ first_run = NoRun
    /\ \E dirs \in DirArgs, top_n \in TopNs : Main(dirs, top_n)

SecondMain ==
    /\ first_run # NoRun
    /\ Main(Content(first_run).argv, Content(first_run).argv.top_n)

LoadMemoryTwice ==
    \E listing \in Listings :
        /\ first_run # NoRun => listing = Content(first_run).mem_entries
        /\ LoadMemory(listing)

LoadTargetsTwice ==
    \E listing \in Listings :
        /\ first_run # NoRun => listing = Content(first_run).tgt_entries
        /\ LoadTargets(listing)

ExitFirstRun ==
    /\ first_run # NoRun
    /\ Exit

\* Between the two runs the vocabulary file may be removed
RemoveVocabularyFileBetween ==
    /\ first_run # NoRun
    /\ RemoveVocabularyFile

NextTwice ==
    \/ FirstMain
    \/ SecondMain
    \/ LoadMemoryTwice
    \/ LoadTargetsTwice
    \/ testVocCreation
    \/ LoadDatabase
    \/ CreateDatabase
    \/ AddImage
    \/ SaveDatabase
    \/ QueryTarget
    \/ WriteReport
    \/ RecordFirstRun
    \/ ExitFirstRun
    \/ RemoveVocabularyFileBetween

SpecTwice == InitTwice /\ [][NextTwice]_vars

-----------------------------------------------------------------------------
(* Properties *)

Ingested == pc \notin {"idle", "loadMemory"}
Trained == pc \in {"testDatabase", "add", "query", "done", "crashed"}
Querying == pc \in {"query", "done", "crashed"}
Reused == hist.db_loads > 0

\* The query result of the j-th target of the run
Ret(j) == Query(db, targets[j], argv.top_n)

\* The targets among the first n whose query result is not empty, in order
Answered(n) == SelectSeq([j \in 1..n |-> j], LAMBDA j : Len(Ret(j)) > 0)

\* The database testDatabase builds from a corpus under a vocabulary
RECURSIVE Built(_, _, _)
Built(v, corpus, n) ==
    IF n = 0 THEN NewDatabase(v)
    ELSE DbAdd(Built(v, corpus, n - 1), corpus[n])

\* The run never reads memory_img_names past its end
NoReadPastEndTwice ==
    pc = "query" /\ i < Len(targets) => OutOfRange(Ret(i + 1)) = {}

\* C1: positional coupling.  Every entry id a query of the run returns is a
\* position of memory_img_names, and the entry with that id is the histogram
\* of the descriptor set this run has loaded at that position.
PositionalCoupling ==
    Querying =>
        \A j \in DOMAIN targets : \A x \in DOMAIN Ret(j) :
            LET e == Ret(j)[x].Id
            IN  /\ e < Len(memory_img_names)
                /\ db.entries[e + 1] = Transform(db.voc, memory[e + 1])

\* C3: a vocabulary file that exists when the run comes to the vocabulary
\* is used as it is: the step neither trains nor changes the file.
VocabularyFileReused ==
    [][pc = "testVocCreation" /\ voc_file # NoFile
          => voc_file' = voc_file /\ hist'.creates = hist.creates]_vars

\* C4: the reuse branch.  A run that finds a database file loads it and
\* nothing else: no add, no save, testDatabase's vocabulary stays as it was
\* constructed, and the database the queries use is the one in the file.  A
\* run builds the database at most once, and only when it found no file.
ReuseBranch ==
    /\ Querying /\ Reused =>
          /\ hist.db_loads = 1
          /\ hist.adds = 0
          /\ hist.db_saves = 0
          /\ voc = DefaultVoc
          /\ db_file # NoFile
          /\ db = Content(db_file)
    /\ pc = "add" => db_file = NoFile /\ ~Reused
    /\ hist.db_saves <= 1
    /\ hist.adds <= Len(memory)

\* C4 witness: the queries are over, and the database they used was loaded
\* from a file that another memory directory and vocabulary had produced
ReuseBranchWitness ==
    /\ pc = "done"
    /\ Reused
    /\ Len(db.entries) = 2
    /\ Len(memory) = 1
    /\ db.voc # Content(voc_file)
    /\ Content(output) # <<>>

\* C5: the fresh build.  The database starts empty on the vocabulary of the
\* vocabulary file, the i-th addition adds the histogram of memory[i], the
\* file is written once after the last addition, and no target is queried
\* before that.
FreshBuild ==
    /\ pc = "add" =>
          /\ voc_file # NoFile
          /\ voc = Content(voc_file)
          /\ db = Built(voc, memory, i)
          /\ hist.adds = i
          /\ i <= Len(memory)
          /\ hist.db_saves = 0
          /\ data = <<>>
    /\ Querying /\ ~Reused =>
          /\ db = Built(voc, memory, Len(memory))
          /\ Len(db.entries) = Len(memory)
          /\ \A e \in 0..(Len(memory) - 1) :
                db.entries[e + 1] = Transform(voc, memory[e + 1])
          /\ hist.adds = Len(memory)
          /\ hist.db_saves = 1
          /\ db_file = DbSave(db)

\* C5 witness: a run has built a database of two entries with different
\* histograms, saved it and queried it
FreshBuildWitness ==
    /\ pc = "done"
    /\ ~Reused
    /\ Len(db.entries) = 2
    /\ db.entries[1] # db.entries[2]
    /\ Content(output) # <<>>

\* The descriptor sets of the memory directory as the run found it
MemoryCorpus == loadFeatures(mem_entries, argv.memory_dir).features

\* C6: no target leakage.  The vocabulary file a run writes is the
\* vocabulary trained on the memory directory alone, and the database file
\* of a run that builds one is built from that vocabulary and the memory
\* directory alone; a run that finds a database file leaves it as it is.
\* Nothing in them depends on the target directory.
NoTargetLeakage ==
    /\ []( /\ Trained => voc_file = VocSave(VocCreate(MemoryCorpus))
           /\ Querying /\ ~Reused =>
                 db_file = DbSave(Built(VocCreate(MemoryCorpus), MemoryCorpus,
                                        Len(MemoryCorpus))) )
    /\ [][pc # "idle" /\ db_file # NoFile => db_file' = db_file]_vars

\* C6 witness: a run has built and saved its database and has answered a
\* target holding a descriptor that no memory image holds
NoTargetLeakageWitness ==
    /\ pc = "done"
    /\ ~Reused
    /\ Len(memory) > 0
    /\ \E j \in DOMAIN targets : \E d \in Range(targets[j]) :
          /\ d \notin Content(voc_file).words
          /\ Len(Ret(j)) > 0

\* The report has a list for each answered target among the first n, and
\* each list has a record for each result of the target's query
KeepsAll(node, n) ==
    /\ Len(node) = Len(Answered(n))
    /\ \A j \in Range(Answered(n)) : \E x \in DOMAIN node :
          /\ node[x].key = get_file_name(target_img_names[j])
          /\ Len(node[x].value) = Len(Ret(j))

\* C7: no list and no record is lost to a shared base name.  Every target
\* with a non-empty result has a list of its own in the report, and every
\* result of a query is a record of its own in that list.
CollisionsPreserved ==
    /\ pc = "query" => KeepsAll(data, i)
    /\ pc = "done" => KeepsAll(Content(output), Len(targets))

\* C7 witness: the report is written; a target and a memory image of the same
\* base name are both in it, as a key and as a proposal, next to a second
\* target and a second proposal
CollisionsPreservedWitness ==
    /\ pc = "done"
    /\ Len(Content(output)) = 2
    /\ \E x \in DOMAIN Content(output) :
          LET entry == Content(output)[x]
          IN  /\ Len(entry.value) = 2
              /\ \E y \in DOMAIN entry.value : entry.value[y].file_name = entry.key
              /\ \E p \in Range(memory_img_names), q \in Range(target_img_names) :
                    /\ p # q
                    /\ get_file_name(p) = entry.key
                    /\ get_file_name(q) = entry.key

\* C8: with TOP_N <= 0, or with a database of no entries, no target gets a
\* key and the run does not end in a crash; with TOP_N > 0 no list of the
\* report is longer than TOP_N.
TopNBoundary ==
    /\ Querying /\ (argv.top_n <= 0 \/ Len(db.entries) = 0) =>
          /\ data = <<>>
          /\ pc # "crashed"
          /\ pc = "done" => output = File(<<>>)
    /\ Querying /\ argv.top_n > 0 =>
          \A x \in DOMAIN data : Len(data[x].value) <= argv.top_n

\* C8 witness: a run with TOP_N <= 0 has queried two targets against a
\* database of two entries and has written a report without keys
TopNBoundaryWitness ==
    /\ pc = "done"
    /\ argv.top_n <= 0
    /\ Len(targets) = 2
    /\ Len(db.entries) = 2
    /\ output = File(<<>>)

\* The report as the claim describes it after the first n targets: a key for
\* each answered target, in the order of the targets, holding a record for
\* each result, in the order of the result, named after the memory image at
\* the position the result's id gives
AsClaimed(node, n) ==
    LET answered == Answered(n)
    IN  /\ Len(node) = Len(answered)
        /\ \A x \in DOMAIN answered :
              LET ret == Ret(answered[x])
              IN  /\ node[x].key = get_file_name(target_img_names[answered[x]])
                  /\ Len(node[x].value) = Len(ret)
                  /\ \A y \in DOMAIN ret :
                        /\ ret[y].Id < Len(memory_img_names)
                        /\ node[x].value[y].file_name =
                              get_file_name(memory_img_names[ret[y].Id + 1])
                        /\ node[x].value[y].score = ret[y].Score

\* C9: the content of the report, while it is built and when it is written.
ReportContent ==
    /\ pc = "query" => AsClaimed(data, i)
    /\ pc = "done" => AsClaimed(Content(output), Len(targets))

\* The pairs the claim gives for a directory: one per regular file
RegularFiles(listing) == SelectSeq(listing, LAMBDA entry : entry.kind = "file")
AsIngested(listing, img_path, features, img_names) ==
    LET files == RegularFiles(listing)
    IN  /\ Len(img_names) = Len(files)
        /\ Len(features) = Len(files)
        /\ \A x \in DOMAIN files :
              /\ img_names[x] = EntryPath(img_path, files[x].name)
              /\ features[x] = files[x].mat

\* C10: loadFeatures yields one (path, descriptor set) pair per regular file
\* of the directory, in directory order, and none for a subdirectory.
RegularFilesOnly ==
    /\ Ingested =>
          AsIngested(mem_entries, argv.memory_dir, memory, memory_img_names)
    /\ Ingested /\ pc # "loadTargets" =>
          AsIngested(tgt_entries, argv.target_dir, targets, target_img_names)

\* C2: the second of two runs of the same command over the same directories,
\* the first without a database file, writes the report the first has written.
RebuildVsReuse ==
    pc = "done" /\ first_run # NoRun => output = Content(first_run).output

\* C2 witness: the second run has loaded the database and written a report
\* of two targets with two proposals of different scores
RebuildVsReuseWitness ==
    /\ pc = "done"
    /\ first_run # NoRun
    /\ Reused
    /\ Len(Content(output)) = 2
    /\ \E x \in DOMAIN Content(output) :
          LET value == Content(output)[x].value
          IN  Len(value) = 2 /\ value[1].score # value[2].score

====
